---- MODULE Spec2Model ----
(***************************************************************************)
(* Popularity-based movie recommender (movie_recommender_new.py and its    *)
(* caller example_usage.py).                                               *)
(*                                                                         *)
(* Data frames are sequences of row records.  Strings that the code        *)
(* inspects character by character (genre fields, genre queries, typed     *)
(* input lines) are sequences of one-character strings.  Scores are exact  *)
(* rationals [n, d] in lowest terms; the binary floating point rounding of *)
(* numpy is not modelled.  Columns the code never reads (userId,           *)
(* timestamp) are left out; a movie's title is represented by its id.      *)
(***************************************************************************)
EXTENDS Integers, Sequences, FiniteSets, TLC

\* ------------------------------------------------------------------------
\* Bounds of the explored inputs
\* ------------------------------------------------------------------------
MaxRatings == 3
MaxN == 2

MovieIds == {1, 2, 3}
RatingValues == {1, 2}

\* ------------------------------------------------------------------------
\* Python / pandas values
\* ------------------------------------------------------------------------
\* A missing genres cell (NaN) and an absent genre argument (None); both are
\* one-element sequences so that they compare with character sequences.
NaN == <<"NaN">>
NoneGenre == <<"None">>
NoneDF == [isNone |-> TRUE, rows |-> <<>>]
DF(rows) == [isNone |-> FALSE, rows |-> rows]

\* Genre cells of movies.csv: "A", "b|a-b", or missing.
GenreFields == {NaN, <<"A">>, <<"b", "|", "a", "-", "b">>}

\* ------------------------------------------------------------------------
\* Exact rational arithmetic
\* ------------------------------------------------------------------------
Abs(x) == IF x < 0 THEN -x ELSE x

RECURSIVE GCD(_, _)
GCD(a, b) == IF b = 0 THEN a ELSE GCD(b, a % b)

Rat(n, d) ==
  LET g == GCD(Abs(n), Abs(d))
      s == IF d < 0 THEN -1 ELSE 1
  IN  [n |-> (s * n) \div g, d |-> (s * d) \div g]

RInt(k) == [n |-> k, d |-> 1]
RAdd(a, b) == Rat(a.n * b.d + b.n * a.d, a.d * b.d)
RSub(a, b) == Rat(a.n * b.d - b.n * a.d, a.d * b.d)
RMul(a, b) == Rat(a.n * b.n, a.d * b.d)
RDiv(a, b) == Rat(a.n * b.d, a.d * b.n)
RLess(a, b) == a.n * b.d < b.n * a.d
RLeq(a, b) == a.n * b.d <= b.n * a.d

\* ------------------------------------------------------------------------
\* Sequence helpers
\* ------------------------------------------------------------------------
Range(s) == {s[i] : i \in DOMAIN s}

Head_n(s, n) == SubSeq(s, 1, IF n < Len(s) THEN n ELSE Len(s))

RECURSIVE SortedSeq(_)
SortedSeq(S) ==
  IF S = {} THEN <<>>
  ELSE LET m == CHOOSE x \in S : \A y \in S : x <= y
       IN  <<m>> \o SortedSeq(S \ {m})

Perms(n) == {f \in [1..n -> 1..n] : \A i, j \in 1..n : i # j => f[i] # f[j]}

Permute(s, f) == [i \in 1..Len(s) |-> s[f[i]]]

\* ------------------------------------------------------------------------
\* DataFrame.sort_values('popularity_score', ascending=False)
\* The default kind is 'quicksort', which pandas documents as not stable:
\* the result is in non-increasing score order, rows of equal score in an
\* order the library does not fix.  Every such outcome is allowed.
\* ------------------------------------------------------------------------
IsSortedDesc(rows) ==
  \A i \in 1..(Len(rows) - 1) :
     RLeq(rows[i + 1].popularity_score, rows[i].popularity_score)

\* Faulty variant for the sensitivity of C2: an ascending sort.
sort_values_asc(rows) ==
  {p \in {Permute(rows, f) : f \in Perms(Len(rows))} :
     \A i \in 1..(Len(rows) - 1) :
        RLeq(p[i].popularity_score, p[i + 1].popularity_score)}

sort_values_desc(rows) ==
  {p \in {Permute(rows, f) : f \in Perms(Len(rows))} : IsSortedDesc(p)}

\* ------------------------------------------------------------------------
\* calculate_popularity
\* ------------------------------------------------------------------------
RECURSIVE SumRatings(_, _)
SumRatings(rows, m) ==
  IF rows = <<>> THEN 0
  ELSE (IF Head(rows).movieId = m THEN Head(rows).rating ELSE 0)
       + SumRatings(Tail(rows), m)

CountRatings(rows, m) == Cardinality({i \in DOMAIN rows : rows[i].movieId = m})

\* groupby('movieId'): one group per distinct key, keys in ascending order.
GroupKeys(rows) == SortedSeq({rows[i].movieId : i \in DOMAIN rows})

avg_ratings(ratings) ==
  LET keys == GroupKeys(ratings)
  IN  [i \in 1..Len(keys) |->
         [movieId |-> keys[i],
          avg_rating |-> Rat(SumRatings(ratings, keys[i]),
                             CountRatings(ratings, keys[i]))]]

rating_counts(ratings) ==
  LET keys == GroupKeys(ratings)
  IN  [i \in 1..Len(keys) |->
         [movieId |-> keys[i],
          rating_count |-> CountRatings(ratings, keys[i])]]

\* pd.merge(left, right, on='movieId'): inner join, order of the left keys.
merge_stats(avgs, counts) ==
  LET Matches(i) == {j \in DOMAIN counts : counts[j].movieId = avgs[i].movieId}
      kept == SelectSeq([i \in DOMAIN avgs |-> i], LAMBDA i : Matches(i) # {})
  IN  [k \in 1..Len(kept) |->
         LET j == CHOOSE j \in Matches(kept[k]) : TRUE
         IN  [movieId |-> avgs[kept[k]].movieId,
              avg_rating |-> avgs[kept[k]].avg_rating,
              rating_count |-> counts[j].rating_count]]

RMin(S) == CHOOSE x \in S : \A y \in S : RLeq(x, y)
RMax(S) == CHOOSE x \in S : \A y \in S : RLeq(y, x)

\* MinMaxScaler on one column: scale_ = 1 / data_range, where a data_range
\* of zero is replaced by 1; min_ = 0 - data_min * scale_;
\* the transform is x * scale_ + min_.
MinMaxScale(x, col) ==
  LET data_min == RMin(col)
      data_range == RSub(RMax(col), data_min)
      scale == RDiv(RInt(1), IF data_range = RInt(0) THEN RInt(1) ELSE data_range)
      min_ == RSub(RInt(0), RMul(data_min, scale))
  IN  RAdd(RMul(x, scale), min_)

\* Faulty variant for the sensitivity of C8: the rating-count term reads the
\* average-rating column.
score_from_average_only(avg_scaled, count_scaled) ==
  RAdd(RMul(Rat(2, 5), avg_scaled), RMul(Rat(3, 5), avg_scaled))

popularity_score(avg_scaled, count_scaled) ==
  RAdd(RMul(Rat(2, 5), avg_scaled), RMul(Rat(3, 5), count_scaled))

\* The scored, still unsorted frame (rows in groupby key order).
scored(ratings) ==
  LET df == merge_stats(avg_ratings(ratings), rating_counts(ratings))
      avgCol == {df[i].avg_rating : i \in DOMAIN df}
      cntCol == {RInt(df[i].rating_count) : i \in DOMAIN df}
  IN  [i \in DOMAIN df |->
         LET a == MinMaxScale(df[i].avg_rating, avgCol)
             c == MinMaxScale(RInt(df[i].rating_count), cntCol)
         IN  [movieId |-> df[i].movieId,
              avg_rating |-> df[i].avg_rating,
              rating_count |-> df[i].rating_count,
              avg_rating_scaled |-> a,
              rating_count_scaled |-> c,
              popularity_score |-> popularity_score(a, c)]]

\* Faulty variant for the sensitivity of C9: a left join, which keeps rated
\* ids that have no movie record (title 0, genres missing).
merge_movies_left(pop, movies) ==
  [k \in DOMAIN pop |->
     LET rec == {j \in DOMAIN movies : movies[j].movieId = pop[k].movieId}
     IN  [movieId |-> pop[k].movieId,
          title |-> IF rec = {} THEN 0 ELSE movies[CHOOSE j \in rec : TRUE].title,
          genres |-> IF rec = {} THEN NaN ELSE movies[CHOOSE j \in rec : TRUE].genres,
          avg_rating |-> pop[k].avg_rating,
          rating_count |-> pop[k].rating_count,
          avg_rating_scaled |-> pop[k].avg_rating_scaled,
          rating_count_scaled |-> pop[k].rating_count_scaled,
          popularity_score |-> pop[k].popularity_score]]

\* pd.merge(popularity_df, movies_df, on='movieId'): inner join, order of
\* the left frame kept (movieId is unique in movies_df).
merge_movies(pop, movies) ==
  LET Rec(m) == {j \in DOMAIN movies : movies[j].movieId = m}
      kept == SelectSeq(pop, LAMBDA r : Rec(r.movieId) # {})
  IN  [k \in 1..Len(kept) |->
         LET j == CHOOSE j \in Rec(kept[k].movieId) : TRUE
         IN  [movieId |-> kept[k].movieId,
              title |-> movies[j].title,
              genres |-> movies[j].genres,
              avg_rating |-> kept[k].avg_rating,
              rating_count |-> kept[k].rating_count,
              avg_rating_scaled |-> kept[k].avg_rating_scaled,
              rating_count_scaled |-> kept[k].rating_count_scaled,
              popularity_score |-> kept[k].popularity_score]]

\* The outcomes of calculate_popularity: fit_transform rejects a frame of
\* zero rows with a ValueError; otherwise one result per sort outcome.
calculate_popularity(movies, ratings) ==
  IF GroupKeys(ratings) = <<>>
  THEN {[error |-> "ValueError", rows |-> <<>>]}
  ELSE {[error |-> "none", rows |-> merge_movies(s, movies)] :
          s \in sort_values_desc(scored(ratings))}

\* ------------------------------------------------------------------------
\* Strings
\* ------------------------------------------------------------------------
\* str.lower() on the characters that occur.
Lower(c) ==
  CASE c = "A" -> "a"
    [] c = "B" -> "b"
    [] c = "Y" -> "y"
    [] OTHER -> c

LowerStr(s) == [i \in DOMAIN s |-> Lower(s[i])]

\* re.search(pat, s, re.IGNORECASE) for patterns made of literal characters
\* and "." (any character); no other regular-expression operator occurs in
\* the patterns explored ("-" is a literal outside a character class).
re_search(pat, s) ==
  \E i \in 1..(Len(s) - Len(pat) + 1) :
     \A k \in 1..Len(pat) : pat[k] = "." \/ Lower(pat[k]) = Lower(s[i + k - 1])

\* Series.str.contains(genre, case=False, na=False); regex=True is the
\* pandas default, so the genre is used as a pattern.
str_contains(cell, genre) == IF cell = NaN THEN FALSE ELSE re_search(genre, cell)

\* Python truthiness of the genre argument: None and "" are false.
Truthy(genre) == genre # NoneGenre /\ genre # <<>>

\* str.split('|')
RECURSIVE Split(_, _)
Split(s, acc) ==
  IF s = <<>> THEN <<acc>>
  ELSE IF Head(s) = "|" THEN <<acc>> \o Split(Tail(s), <<>>)
  ELSE Split(Tail(s), Append(acc, Head(s)))

\* Code points, for the ordering of str.
Ord(c) ==
  CASE c = "-" -> 45 [] c = "." -> 46
    [] c = "A" -> 65 [] c = "B" -> 66 [] c = "Y" -> 89
    [] c = "a" -> 97 [] c = "b" -> 98 [] c = "c" -> 99
    [] c = "n" -> 110 [] c = "x" -> 120 [] c = "y" -> 121
    [] c = "|" -> 124
    [] OTHER -> 48

RECURSIVE StrLeq(_, _)
StrLeq(a, b) ==
  IF a = <<>> THEN TRUE
  ELSE IF b = <<>> THEN FALSE
  ELSE IF Head(a) = Head(b) THEN StrLeq(Tail(a), Tail(b))
  ELSE Ord(Head(a)) < Ord(Head(b))

RECURSIVE SortedStrs(_)
SortedStrs(S) ==
  IF S = {} THEN <<>>
  ELSE LET m == CHOOSE x \in S : \A y \in S : StrLeq(x, y)
       IN  <<m>> \o SortedStrs(S \ {m})

\* ------------------------------------------------------------------------
\* recommend_popular_movies: the possible return values
\* ------------------------------------------------------------------------
genre_filter(popularity_df, genre) ==
  SelectSeq(popularity_df, LAMBDA r : str_contains(r.genres, genre))

\* Faulty variant for the sensitivity of C1: the overall top n is taken
\* first and filtered afterwards.
recommend_truncate_first(popularity_df, n, genre) ==
  IF Truthy(genre)
  THEN LET filtered_df == genre_filter(Head_n(popularity_df, n), genre)
       IN  IF filtered_df = <<>>
           THEN {NoneDF}
           ELSE {DF(s) : s \in sort_values_desc(filtered_df)}
  ELSE {DF(Head_n(popularity_df, n))}

recommend_popular_movies(popularity_df, n, genre) ==
  IF Truthy(genre)
  THEN LET filtered_df == genre_filter(popularity_df, genre)
       IN  IF filtered_df = <<>>
           THEN {NoneDF}
           ELSE {DF(Head_n(s, n)) : s \in sort_values_desc(filtered_df)}
  ELSE {DF(Head_n(popularity_df, n))}

\* ------------------------------------------------------------------------
\* visualize_popularity: the bars handed to plt.barh, in the order given
\* ------------------------------------------------------------------------
DefaultTopN == 20

Bars(top_movies) ==
  [i \in DOMAIN top_movies |->
     [title |-> top_movies[i].title,
      popularity_score |-> top_movies[i].popularity_score]]

NoChart == [drawn |-> FALSE, bars |-> <<>>]

visualize_popularity(popularity_df, top_n, genre) ==
  IF Truthy(genre)
  THEN LET filtered_df == genre_filter(popularity_df, genre)
       IN  IF filtered_df = <<>>
           THEN {NoChart}
           ELSE {[drawn |-> TRUE, bars |-> Bars(Head_n(s, top_n))] :
                   s \in sort_values_desc(filtered_df)}
  ELSE {[drawn |-> TRUE, bars |-> Bars(Head_n(popularity_df, top_n))]}

\* ------------------------------------------------------------------------
\* get_available_genres
\* ------------------------------------------------------------------------
get_available_genres(movies) ==
  SortedStrs(UNION {Range(Split(movies[i].genres, <<>>)) :
                      i \in {j \in DOMAIN movies : movies[j].genres # NaN}})

\* ------------------------------------------------------------------------
\* int(input(...))
\* ------------------------------------------------------------------------
Digits == <<"0", "1", "2", "3", "4", "5", "6", "7", "8", "9">>

IsDigit(c) == \E k \in DOMAIN Digits : Digits[k] = c

DigitValue(c) == (CHOOSE k \in DOMAIN Digits : Digits[k] = c) - 1

RECURSIVE Decimal(_, _)
Decimal(s, acc) ==
  IF s = <<>> THEN acc ELSE Decimal(Tail(s), 10 * acc + DigitValue(Head(s)))

\* int(line): an optional sign and at least one decimal digit, otherwise
\* ValueError.
int_parse(line) ==
  LET signed == line # <<>> /\ Head(line) \in {"-", "+"}
      body == IF signed THEN Tail(line) ELSE line
  IN  IF body # <<>> /\ \A i \in DOMAIN body : IsDigit(body[i])
      THEN [ok |-> TRUE,
            val |-> IF signed /\ Head(line) = "-"
                    THEN 0 - Decimal(body, 0) ELSE Decimal(body, 0)]
      ELSE [ok |-> FALSE, val |-> 0]

\* ------------------------------------------------------------------------
\* Input data and typed lines that are explored
\* ------------------------------------------------------------------------
RatingRows == [movieId : MovieIds, rating : RatingValues]

RowKey(r) == 10 * r.movieId + r.rating

\* ratings.csv: at most MaxRatings rows.  Only tables listed in key order
\* are explored; calculate_popularity groups the rows by movieId, so the
\* order of the rows does not reach its result.
RatingTables ==
  UNION {{t \in [1..k -> RatingRows] :
            \A i \in 1..(k - 1) : RowKey(t[i]) <= RowKey(t[i + 1])} :
         k \in 0..MaxRatings}

Absent == <<"absent">>

\* movies.csv: at most one row per movieId, in movieId order.
MovieTables ==
  {LET ids == SortedSeq({m \in MovieIds : f[m] # Absent})
   IN  [i \in 1..Len(ids) |->
          [movieId |-> ids[i], title |-> ids[i], genres |-> f[ids[i]]]] :
   f \in [MovieIds -> GenreFields \cup {Absent}]}

FileStates == {"ok", "movies_missing", "ratings_missing", "unreadable"}

NumberLines ==
  {<<Digits[k + 1]>> : k \in 0..MaxN} \cup {<<"-", "1">>, <<"x">>, <<>>}

GenreLines == {<<"A">>, <<"a">>, <<"b">>, <<"a", "-", "b">>, <<>>}

AnswerLines == {<<"y">>, <<"Y">>, <<"n">>}

\* Genre arguments tried on the functions directly.
GenreArgs ==
  {NoneGenre, <<>>, <<"a">>, <<"B">>, <<"a", "-", "b">>, <<"a", ".", "b">>,
   <<"c">>}

\* ------------------------------------------------------------------------
\* State
\* ------------------------------------------------------------------------
VARIABLES
  pc,                \* position in main, or in the direct caller
  disk,              \* the two CSV files and whether they can be read
  movies_df,
  ratings_df,
  popular_movies,    \* rows returned by calculate_popularity
  available_genres,
  choice,            \* get_user_input: the menu choice
  genre_input,       \* get_user_input: the accepted genre line
  user_prefs,        \* the dict returned by get_user_input
  top_movies,        \* last value returned by recommend_popular_movies
  rec_args,          \* the n and genre of that call
  chart,             \* what visualize_popularity handed to plt.barh
  viz_args,          \* the top_n and genre of that call
  printed,           \* the message printed last
  called             \* the operations that have run so far

vars == <<pc, disk, movies_df, ratings_df, popular_movies, available_genres,
          choice, genre_input, user_prefs, top_movies, rec_args, chart,
          viz_args, printed, called>>

NoPrefs == [type |-> "unset", n |-> 0, genre |-> NoneGenre]
NoArgs == [n |-> 0, genre |-> NoneGenre]

InitCommon ==
  /\ popular_movies = <<>>
  /\ available_genres = <<>>
  /\ choice = 0
  /\ genre_input = NoneGenre
  /\ user_prefs = NoPrefs
  /\ top_movies = NoneDF
  /\ rec_args = NoArgs
  /\ chart = NoChart
  /\ viz_args = NoArgs
  /\ printed = "nothing"
  /\ called = {}

\* ------------------------------------------------------------------------
\* main of movie_recommender_new.py
\* ------------------------------------------------------------------------
Init ==
  /\ pc = "start"
  /\ disk \in [movies : MovieTables, ratings : RatingTables, state : FileStates]
  /\ movies_df = NoneDF
  /\ ratings_df = NoneDF
  /\ InitCommon

\* load_data: movies.csv is read first, then ratings.csv.  Only
\* FileNotFoundError is caught; any other failure of read_csv propagates.
LoadData ==
  /\ pc = "start"
  /\ \/ /\ disk.state = "ok"
        /\ movies_df' = DF(disk.movies)
        /\ ratings_df' = DF(disk.ratings)
        /\ printed' = "loaded"
        /\ pc' = "check"
     \/ /\ disk.state \in {"movies_missing", "ratings_missing"}
        /\ movies_df' = NoneDF
        /\ ratings_df' = NoneDF
        /\ printed' = "not_found"
        /\ pc' = "check"
     \/ /\ disk.state = "unreadable"
        /\ printed' = "traceback"
        /\ pc' = "crashed"
        /\ UNCHANGED <<movies_df, ratings_df>>
  /\ UNCHANGED <<disk, popular_movies, available_genres, choice, genre_input,
                 user_prefs, top_movies, rec_args, chart, viz_args, called>>

\* Faulty variant for the sensitivity of C6: the result of load_data is not
\* checked.
load_unchecked(m, r) == FALSE

load_failed(m, r) == m.isNone \/ r.isNone

CheckLoaded ==
  /\ pc = "check"
  /\ IF load_failed(movies_df, ratings_df)
     THEN printed' = "failed_exit" /\ pc' = "exit"
     ELSE printed' = "calculating" /\ pc' = "calc"
  /\ UNCHANGED <<disk, movies_df, ratings_df, popular_movies, available_genres,
                 choice, genre_input, user_prefs, top_movies, rec_args, chart,
                 viz_args, called>>

CalculatePopularity ==
  /\ pc = "calc"
  /\ called' = called \cup {"calculate"}
  /\ \E out \in calculate_popularity(movies_df.rows, ratings_df.rows) :
       IF out.error # "none"
       THEN /\ printed' = "traceback"
            /\ pc' = "crashed"
            /\ UNCHANGED popular_movies
       ELSE /\ popular_movies' = out.rows
            /\ pc' = "genres"
            /\ UNCHANGED printed
  /\ UNCHANGED <<disk, movies_df, ratings_df, available_genres, choice,
                 genre_input, user_prefs, top_movies, rec_args, chart, viz_args>>

GetAvailableGenres ==
  /\ pc = "genres"
  /\ available_genres' = get_available_genres(movies_df.rows)
  /\ printed' = "menu"
  /\ pc' = "choice"
  /\ UNCHANGED <<disk, movies_df, ratings_df, popular_movies, choice,
                 genre_input, user_prefs, top_movies, rec_args, chart, viz_args,
                 called>>

\* Faulty variant for the sensitivity of C7: a count of zero is accepted.
count_not_negative(n) == n >= 0

valid_choice(c) == c \in {1, 2}
valid_count(n) == n > 0
valid_genre(g, genres) == g \in Range(genres)

\* One pass of the first loop of get_user_input.
PromptChoice(line) ==
  /\ pc = "choice"
  /\ called' = called \cup {"prompt"}
  /\ LET p == int_parse(line)
     IN  IF ~p.ok
         THEN printed' = "invalid_number" /\ UNCHANGED <<pc, choice>>
         ELSE IF valid_choice(p.val)
         THEN /\ choice' = p.val
              /\ pc' = IF p.val = 1 THEN "count" ELSE "genre"
              /\ printed' = IF p.val = 1 THEN printed ELSE "genre_list"
         ELSE printed' = "invalid_choice" /\ UNCHANGED <<pc, choice>>
  /\ UNCHANGED <<disk, movies_df, ratings_df, popular_movies, available_genres,
                 genre_input, user_prefs, top_movies, rec_args, chart, viz_args>>

\* One pass of the genre loop.
PromptGenre(line) ==
  /\ pc = "genre"
  /\ IF valid_genre(line, available_genres)
     THEN genre_input' = line /\ pc' = "count" /\ UNCHANGED printed
     ELSE printed' = "invalid_genre" /\ UNCHANGED <<pc, genre_input>>
  /\ UNCHANGED <<disk, movies_df, ratings_df, popular_movies, available_genres,
                 choice, user_prefs, top_movies, rec_args, chart, viz_args,
                 called>>

\* One pass of either count loop; a valid count returns the dict.
PromptCount(line) ==
  /\ pc = "count"
  /\ LET p == int_parse(line)
     IN  IF ~p.ok
         THEN printed' = "invalid_number" /\ UNCHANGED <<pc, user_prefs>>
         ELSE IF valid_count(p.val)
         THEN /\ user_prefs' =
                   IF choice = 1
                   THEN [type |-> "popularity", n |-> p.val, genre |-> NoneGenre]
                   ELSE [type |-> "genre", n |-> p.val, genre |-> genre_input]
              /\ pc' = "recommend"
              /\ UNCHANGED printed
         ELSE printed' = "positive_number" /\ UNCHANGED <<pc, user_prefs>>
  /\ UNCHANGED <<disk, movies_df, ratings_df, popular_movies, available_genres,
                 choice, genre_input, top_movies, rec_args, chart, viz_args,
                 called>>

\* Step 5 of main.
Recommend ==
  /\ pc = "recommend"
  /\ LET g == IF user_prefs.type = "popularity" THEN NoneGenre
              ELSE user_prefs.genre
     IN  /\ rec_args' = [n |-> user_prefs.n, genre |-> g]
         /\ \E r \in recommend_popular_movies(popular_movies, user_prefs.n, g) :
              /\ top_movies' = r
              /\ printed' = IF r.isNone THEN "no_movies_for_genre" ELSE "listing"
  /\ called' = called \cup {"recommend"}
  /\ pc' = "ask"
  /\ UNCHANGED <<disk, movies_df, ratings_df, popular_movies, available_genres,
                 choice, genre_input, user_prefs, chart, viz_args>>

\* Step 6 of main.
AskVisualize(line) ==
  /\ pc = "ask"
  /\ IF LowerStr(line) = <<"y">>
     THEN LET g == IF user_prefs.type = "popularity" THEN NoneGenre
                   ELSE user_prefs.genre
          IN  /\ viz_args' = [n |-> DefaultTopN, genre |-> g]
              /\ \E c \in visualize_popularity(popular_movies, DefaultTopN, g) :
                   chart' = c
              /\ called' = called \cup {"visualize"}
     ELSE UNCHANGED <<chart, viz_args, called>>
  /\ printed' = "completed"
  /\ pc' = "exit"
  /\ UNCHANGED <<disk, movies_df, ratings_df, popular_movies, available_genres,
                 choice, genre_input, user_prefs, top_movies, rec_args>>

Next ==
  \/ LoadData
  \/ CheckLoaded
  \/ CalculatePopularity
  \/ GetAvailableGenres
  \/ \E line \in NumberLines : PromptChoice(line)
  \/ \E line \in GenreLines : PromptGenre(line)
  \/ \E line \in NumberLines : PromptCount(line)
  \/ Recommend
  \/ \E line \in AnswerLines : AskVisualize(line)

Spec == Init /\ [][Next]_vars

\* ------------------------------------------------------------------------
\* A caller that uses the functions directly on loaded frames, as
\* example_usage.py does, with any count and genre argument.
\* ------------------------------------------------------------------------
InitApi ==
  /\ pc = "api_loaded"
  /\ disk \in [movies : MovieTables, ratings : RatingTables, state : {"ok"}]
  /\ movies_df = DF(disk.movies)
  /\ ratings_df = DF(disk.ratings)
  /\ InitCommon

ApiCalculate ==
  /\ pc = "api_loaded"
  /\ called' = called \cup {"calculate"}
  /\ \E out \in calculate_popularity(movies_df.rows, ratings_df.rows) :
       IF out.error # "none"
       THEN /\ printed' = "traceback"
            /\ pc' = "crashed"
            /\ UNCHANGED popular_movies
       ELSE /\ popular_movies' = out.rows
            /\ pc' = "api_scored"
            /\ UNCHANGED printed
  /\ UNCHANGED <<disk, movies_df, ratings_df, available_genres, choice,
                 genre_input, user_prefs, top_movies, rec_args, chart, viz_args>>

ApiRecommend(n, genre) ==
  /\ pc = "api_scored"
  /\ rec_args' = [n |-> n, genre |-> genre]
  /\ \E r \in recommend_popular_movies(popular_movies, n, genre) :
       /\ top_movies' = r
       /\ printed' = IF r.isNone THEN "no_movies_for_genre" ELSE printed
  /\ called' = called \cup {"recommend"}
  /\ pc' = "api_done"
  /\ UNCHANGED <<disk, movies_df, ratings_df, popular_movies, available_genres,
                 choice, genre_input, user_prefs, chart, viz_args>>

ApiVisualize(top_n, genre) ==
  /\ pc = "api_scored"
  /\ viz_args' = [n |-> top_n, genre |-> genre]
  /\ \E c \in visualize_popularity(popular_movies, top_n, genre) :
       /\ chart' = c
       /\ printed' = IF c.drawn THEN "saved" ELSE "no_movies_for_genre"
  /\ called' = called \cup {"visualize"}
  /\ pc' = "api_done"
  /\ UNCHANGED <<disk, movies_df, ratings_df, popular_movies, available_genres,
                 choice, genre_input, user_prefs, top_movies, rec_args>>

NextApi ==
  \/ ApiCalculate
  \/ \E n \in 1..MaxN, genre \in GenreArgs : ApiRecommend(n, genre)
  \/ \E n \in 1..MaxN, genre \in GenreArgs : ApiVisualize(n, genre)

SpecApi == InitApi /\ [][NextApi]_vars

\* ------------------------------------------------------------------------
\* Vocabulary of the properties
\* ------------------------------------------------------------------------
Min(a, b) == IF a < b THEN a ELSE b

Scored == pc \in {"api_scored", "api_done"}

Recommended == pc = "api_done" /\ "recommend" \in called

Visualized == pc = "api_done" /\ "visualize" \in called

Matching(g) == Range(genre_filter(popular_movies, g))

\* The rows of lo score no higher than the rows of hi.
ScoresBelow(lo, hi) ==
  \A x \in lo, y \in hi : RLeq(x.popularity_score, y.popularity_score)

\* q occurs in the cell as a substring, letter case ignored.
ContainsCI(cell, q) ==
  /\ cell # NaN
  /\ \E i \in 1..(Len(cell) - Len(q) + 1) :
        \A k \in 1..Len(q) : Lower(q[k]) = Lower(cell[i + k - 1])

\* The stable descending sort: rows of equal score keep their order.
StableSortDesc(rows) ==
  LET f == CHOOSE f \in Perms(Len(rows)) :
             /\ IsSortedDesc(Permute(rows, f))
             /\ \A i, j \in 1..Len(rows) :
                  (i < j /\ rows[f[i]].popularity_score = rows[f[j]].popularity_score)
                    => f[i] < f[j]
  IN  Permute(rows, f)

Position(rows, title) == CHOOSE i \in DOMAIN rows : rows[i].title = title

RatedIds == {ratings_df.rows[i].movieId : i \in DOMAIN ratings_df.rows}

RecordIds == {movies_df.rows[i].movieId : i \in DOMAIN movies_df.rows}

ResultIds == {popular_movies[i].movieId : i \in DOMAIN popular_movies}

\* ------------------------------------------------------------------------
\* C1: with a genre, recommend_popular_movies filters first and truncates
\* afterwards: it returns min(n, number of matching entries) entries, all of
\* them matching, in non-increasing score order, and no matching entry left
\* out scores higher than one returned; None only when nothing matches.
\* ------------------------------------------------------------------------
C1_FilterBeforeTruncation ==
  (Recommended /\ Truthy(rec_args.genre)) =>
    LET m == Matching(rec_args.genre)
        res == top_movies.rows
    IN  IF top_movies.isNone
        THEN m = {}
        ELSE /\ Len(res) = Min(rec_args.n, Cardinality(m))
             /\ Cardinality(Range(res)) = Len(res)
             /\ Range(res) \subseteq m
             /\ IsSortedDesc(res)
             /\ ScoresBelow(m \ Range(res), Range(res))

\* A matching entry is returned although it lies outside the overall top n.
C1_Witness ==
  /\ Recommended
  /\ Truthy(rec_args.genre)
  /\ ~top_movies.isNone
  /\ Len(genre_filter(Head_n(popular_movies, rec_args.n), rec_args.genre))
       < Len(top_movies.rows)

\* ------------------------------------------------------------------------
\* C2: without a genre, recommend_popular_movies returns min(n, number of
\* entries) entries of the ranking, the highest scoring ones, in
\* non-increasing score order, and never fails when n is larger.
\* ------------------------------------------------------------------------
C2_TopN ==
  (Recommended /\ rec_args.genre = NoneGenre) =>
    LET res == top_movies.rows
    IN  /\ ~top_movies.isNone
        /\ Len(res) = Min(rec_args.n, Len(popular_movies))
        /\ Cardinality(Range(res)) = Len(res)
        /\ Range(res) \subseteq Range(popular_movies)
        /\ IsSortedDesc(res)
        /\ ScoresBelow(Range(popular_movies) \ Range(res), Range(res))
        /\ (rec_args.n >= Len(popular_movies) => Range(res) = Range(popular_movies))

\* A ranking of distinct scores is cut short.
C2_Witness ==
  /\ Recommended
  /\ rec_args.genre = NoneGenre
  /\ rec_args.n < Len(popular_movies)
  /\ RLess(popular_movies[Len(popular_movies)].popularity_score,
           popular_movies[1].popularity_score)

\* ------------------------------------------------------------------------
\* C3: with a genre, the result is None exactly when no entry's genres
\* contain the query as a case-insensitive substring, and a result that is
\* not None is a non-empty list.
\* ------------------------------------------------------------------------
C3_NoneIffNoSubstringMatch ==
  (Recommended /\ Truthy(rec_args.genre)) =>
    /\ top_movies.isNone <=>
         ~ \E i \in DOMAIN popular_movies :
              ContainsCI(popular_movies[i].genres, rec_args.genre)
    /\ ~top_movies.isNone => top_movies.rows # <<>>

\* ------------------------------------------------------------------------
\* C4: ranking is stable: entries of equal score keep the order of the
\* frame they were sorted from, in calculate_popularity and in the
\* genre-filtered sort of recommend_popular_movies.
\* ------------------------------------------------------------------------
C4_StableRanking ==
  /\ Scored =>
       popular_movies =
         merge_movies(StableSortDesc(scored(ratings_df.rows)), movies_df.rows)
  /\ (Recommended /\ Truthy(rec_args.genre) /\ ~top_movies.isNone) =>
       top_movies.rows =
         Head_n(StableSortDesc(genre_filter(popular_movies, rec_args.genre)),
                rec_args.n)

\* ------------------------------------------------------------------------
\* C5: with no rating events calculate_popularity completes without error
\* and yields an empty ranking.
\* ------------------------------------------------------------------------
C5_EmptyRatingsEmptyRanking ==
  (ratings_df.rows = <<>> /\ "calculate" \in called) =>
    (pc # "crashed" /\ popular_movies = <<>>)

\* ------------------------------------------------------------------------
\* C6: after a failed load nothing of the pipeline runs: the failure is
\* reported, and calculate_popularity, the prompt, the recommendation and
\* the visualization never occur.
\* ------------------------------------------------------------------------
C6_NoPipelineAfterFailedLoad ==
  (disk.state # "ok" /\ pc # "start") =>
    /\ called = {}
    /\ pc \in {"check", "exit", "crashed"}
    /\ printed \in {"not_found", "failed_exit", "traceback"}
    /\ popular_movies = <<>> /\ top_movies = NoneDF /\ chart = NoChart

\* ratings.csv is missing and main has returned after reporting it.
C6_Witness ==
  /\ disk.state = "ratings_missing"
  /\ pc = "exit"
  /\ printed = "failed_exit"

\* ------------------------------------------------------------------------
\* C7: the prompt loop stays at the same prompt after an invalid entry and
\* only returns a request of type popularity or genre with a positive count
\* and, in genre mode, a genre of the known list; recommend_popular_movies
\* is only ever called with such a count and genre.
\* ------------------------------------------------------------------------
PromptStates == {"choice", "genre", "count"}

InvalidMessages ==
  {"invalid_number", "invalid_choice", "invalid_genre", "positive_number"}

ValidPrefs ==
  /\ user_prefs.type \in {"popularity", "genre"}
  /\ user_prefs.n > 0
  /\ user_prefs.type = "genre" => user_prefs.genre \in Range(available_genres)
  /\ user_prefs.type = "popularity" => user_prefs.genre = NoneGenre

ValidRequestState ==
  /\ pc \in {"recommend", "ask"} => ValidPrefs
  /\ "recommend" \in called =>
       /\ rec_args.n > 0
       /\ rec_args.n = user_prefs.n
       /\ rec_args.genre = NoneGenre \/ rec_args.genre \in Range(available_genres)
  /\ pc \in {"start", "check", "calc", "genres"} \cup PromptStates =>
       user_prefs = NoPrefs

RepromptStep ==
  /\ (printed' # printed /\ printed' \in InvalidMessages) =>
       (pc \in PromptStates /\ pc' = pc /\ user_prefs' = user_prefs)
  /\ (pc \in PromptStates /\ pc' \notin PromptStates) =>
       (pc' = "recommend" /\ ValidPrefs')

C7_OnlyValidRequests == []ValidRequestState /\ [][RepromptStep]_vars

\* A genre request is returned after a rejected count.
C7_Witness ==
  /\ pc = "recommend"
  /\ printed = "positive_number"
  /\ user_prefs.type = "genre"

\* ------------------------------------------------------------------------
\* C8: a dimension of zero range raises no error and gives every movie the
\* same scaled value, so the other dimension decides: among movies of equal
\* average rating the one with more ratings ranks first (and among movies
\* of equal rating count the one with the higher average).
\* ------------------------------------------------------------------------
AllAveragesEqual ==
  LET a == avg_ratings(ratings_df.rows)
  IN  Cardinality({a[i].avg_rating : i \in DOMAIN a}) <= 1

AllCountsEqual ==
  LET c == rating_counts(ratings_df.rows)
  IN  Cardinality({c[i].rating_count : i \in DOMAIN c}) <= 1

C8_ZeroRangeDimension ==
  /\ ("calculate" \in called /\ ratings_df.rows # <<>>) => pc # "crashed"
  /\ (Scored /\ AllAveragesEqual) =>
       \A i, j \in DOMAIN popular_movies :
          /\ popular_movies[i].avg_rating_scaled = popular_movies[j].avg_rating_scaled
          /\ popular_movies[i].rating_count > popular_movies[j].rating_count => i < j
  /\ (Scored /\ AllCountsEqual) =>
       \A i, j \in DOMAIN popular_movies :
          /\ popular_movies[i].rating_count_scaled = popular_movies[j].rating_count_scaled
          /\ RLess(popular_movies[j].avg_rating, popular_movies[i].avg_rating) => i < j

\* Two movies of equal average rating, the first with more ratings.
C8_Witness ==
  /\ Scored
  /\ AllAveragesEqual
  /\ Len(popular_movies) >= 2
  /\ popular_movies[1].rating_count > popular_movies[2].rating_count

\* ------------------------------------------------------------------------
\* C9: the result of calculate_popularity holds exactly the movieIds that
\* have a rating event and a movie record, each once.
\* ------------------------------------------------------------------------
C9_InnerJoin ==
  Scored =>
    /\ ResultIds = RatedIds \cap RecordIds
    /\ Len(popular_movies) = Cardinality(ResultIds)

\* A rated id without record and a record without ratings are dropped
\* while another movie is kept.
C9_Witness ==
  /\ Scored
  /\ RatedIds \ RecordIds # {}
  /\ RecordIds \ RatedIds # {}
  /\ popular_movies # <<>>

\* ------------------------------------------------------------------------
\* C10: the bars visualize_popularity plots are entries of the ranking it
\* was given, in the same relative order as in that ranking, with or
\* without a genre.
\* ------------------------------------------------------------------------
C10_ChartKeepsRankingOrder ==
  (Visualized /\ chart.drawn) =>
    /\ Range(chart.bars) \subseteq Range(Bars(popular_movies))
    /\ \A i, j \in DOMAIN chart.bars :
          i < j => Position(popular_movies, chart.bars[i].title)
                     < Position(popular_movies, chart.bars[j].title)

====
